---- MODULE Spec2Model ----
(***************************************************************************)
(* The paginated image grid of src/_test/image_viewer.py (3x3 window) and  *)
(* src/_test/widgets/image_viewer_widget.py (4x3 widget): class ImageGrid. *)
(* Python lists are modelled as functions over 0..n-1, so that indices     *)
(* read as in the source.                                                  *)
(* MediaViewer of src/_test/media_viewer.py is a program of its own, with  *)
(* its own specification, ViewerSpec; so are VideoPlayer of                *)
(* src/_test/player.py (PlayerSpec) and MediaScannerApp of                 *)
(* src/_test/qtreeview_media_scanner.py (ScannerSpec).                     *)
(***************************************************************************)
EXTENDS Integers, FiniteSets, Sequences, TLC

\* ---------------------------------------------------------------- bounds
\* Most paths one file dialog returns.
MaxImages == 25
\* Folders the file dialog can return a selection from.
NumFolders == 1
\* Longest media_files list a MediaViewer is constructed with.
MaxFiles == 3
\* Most VideoPlayerWindows a MediaViewer opens.
MaxPlayerWindows == 1
\* Longest medium the VideoPlayer opens, in ms.
MaxDuration == 12000
\* Spacing, in ms, of the positions playback reports.
PositionGrain == 5000
\* Most files on the disk MediaScannerApp scans.
MaxFsFiles == 2

\* ------------------------------------------------------ program constants
\* image_viewer.py: self.images_per_page = 9
ViewerImagesPerPage == 9
\* image_viewer.py: "a 3x3 grid", row, col = divmod(i, 3)
ViewerGridRows == 3
ViewerImagesPerRow == 3
\* image_viewer_widget.py: self.images_per_row = 4, self.images_per_col = 3
images_per_row == 4
images_per_col == 3
WidgetImagesPerPage == images_per_row * images_per_col
\* player.py: max(0, current_position - 5000)
RewindStep == 5000
\* player.py: current_position + 5000
ForwardStep == 5000
\* player.py: self.volume_slider.setValue(75)
InitialVolume == 75

\* ------------------------------------------------------------------ state
VARIABLES
    images_per_page,  \* self.images_per_page (fixed per viewer instance)
    grid_layout,      \* self.grid_layout: the (row, col) each label was added at
    image_paths,      \* self.image_paths
    current_page,     \* self.current_page
    image_labels,     \* self.image_labels: what each grid cell shows
    btn_home,         \* self.btn_home.isEnabled()
    btn_prev,         \* self.btn_prev.isEnabled()
    btn_next,         \* self.btn_next.isEnabled()
    btn_end,          \* self.btn_end.isEnabled()
    total_pages,      \* the local total_pages a handler computed last
    raised,           \* a handler raised IndexError (PyQt aborts the program)
    op,               \* the handler that ran last
    arg,              \* the paths the file dialog returned to it (open_images),
                      \* the list MediaViewer is constructed with
    pre,              \* image_paths and current_page when it was entered
                      \* (MediaViewer: current_index and the windows open)
    \* MediaViewer
    viewer_attrs,     \* the attributes of self that exist
    media_files,      \* self.media_files
    current_index,    \* self.current_index
    is_current_media_video,  \* self.is_current_media_video
    original_pixmap,  \* self.original_pixmap
    window_title,     \* self.windowTitle()
    media_label,      \* self.media_label.pixmap()
    player_windows,   \* self.player_windows: the path each window plays
    viewer_error,     \* the exception that ended the program, or "none"
    \* VideoPlayer
    source,           \* self.media_player.source()
    playback_state,   \* self.media_player.playbackState()
    position,         \* self.media_player.position(), in ms
    duration,         \* self.media_player.duration(), in ms
    requested,        \* the positions the last handler passed to setPosition
    enabled,          \* isEnabled() of each control
    muted,            \* self.audio_output.isMuted()
    audio_volume,     \* self.audio_output.volume(), in hundredths
    volume_slider,    \* self.volume_slider.value()
    position_slider,  \* self.position_slider: its value and its maximum
    tooltips,         \* toolTip() of the play and the mute button
    time_label,       \* self.time_label.text()
    \* MediaScannerApp
    fs,               \* the directories and files on disk
    model_rows,       \* self.model: its items, in the order they were added
    parent_missing,   \* scan_folder found no item for a directory it visited
    scanner_title     \* self.windowTitle()

grid_vars == <<images_per_page, grid_layout, image_paths, current_page,
               image_labels, btn_home, btn_prev, btn_next, btn_end,
               total_pages, raised>>

viewer_vars == <<viewer_attrs, media_files, current_index,
                 is_current_media_video, original_pixmap, window_title,
                 media_label, player_windows, viewer_error>>

player_vars == <<source, playback_state, position, duration, requested,
                 enabled, muted, audio_volume, volume_slider,
                 position_slider, tooltips, time_label>>

scanner_vars == <<fs, model_rows, parent_missing, scanner_title>>

vars == <<grid_vars, op, arg, pre, viewer_vars, player_vars, scanner_vars>>

\* ------------------------------------------------------------------ lists
len(l) == Cardinality(DOMAIN l)

EmptyList == [i \in {} |-> <<0, 0>>]

\* l[i] of a Python list: a negative index counts from the end, and an index
\* outside -len(l) .. len(l)-1 raises IndexError.
InRange(l, i) == i >= 0 - len(l) /\ i < len(l)

getitem(l, i) == IF i < 0 THEN l[i + len(l)] ELSE l[i]

\* A path is <<folder, file>>; NoPixmap is the pixmap of a label showing text.
NoPixmap == <<0, 0>>

\* What QFileDialog.getOpenFileNames can return: n distinct paths of a folder,
\* in the dialog's order; n = 0 is a cancelled dialog.
Selection(n, k) == [i \in 0 .. n - 1 |-> <<k, i>>]

Selections ==
    {EmptyList} \cup {Selection(n, k) : n \in 1 .. MaxImages, k \in 1 .. NumFolders}

\* ----------------------------------------------------------------- labels
\* label.setPixmap(pixmap of path): the label shows the image and no text.
Pixmap(path) == [pixmap |-> path, text |-> 0]

\* QLabel(f"Image {i+1}"), and label.clear(); label.setText(f"Image {i+1}").
Cleared(i) == [pixmap |-> NoPixmap, text |-> i + 1]

\* ------------------------------------------------------------- arithmetic
\* divmod(a, b) for a >= 0, b > 0.
divmod(a, b) == <<a \div b, a % b>>

\* Mutant of grid_position: addWidget(label, col, row).
grid_position_swapped(i, per_row) ==
    LET rc == divmod(i, per_row)
    IN  <<rc[2], rc[1]>>

\* row, col = divmod(i, per_row); self.grid_layout.addWidget(label, row, col)
grid_position(i, per_row) ==
    LET rc == divmod(i, per_row)
    IN  <<rc[1], rc[2]>>

\* The two viewers: the 3x3 window and the 4-per-row widget.
Viewers ==
    {[images_per_page |-> ViewerImagesPerPage, per_row |-> ViewerImagesPerRow],
     [images_per_page |-> WidgetImagesPerPage, per_row |-> images_per_row]}

\* Mutant of ceil: floor division (total_images // images_per_page).
ceil_floor(a, b) == a \div b

\* math.ceil(a / b) for a >= 0, b > 0.
ceil(a, b) == IF a % b = 0 THEN a \div b ELSE (a \div b) + 1

\* ------------------------------------------------- MediaViewer: file names
\* A file path is the sequence of its characters.
UpperCase ==
    <<"A", "B", "C", "D", "E", "F", "G", "H", "I", "J", "K", "L", "M",
      "N", "O", "P", "Q", "R", "S", "T", "U", "V", "W", "X", "Y", "Z">>

LowerCase ==
    <<"a", "b", "c", "d", "e", "f", "g", "h", "i", "j", "k", "l", "m",
      "n", "o", "p", "q", "r", "s", "t", "u", "v", "w", "x", "y", "z">>

\* Mutant of lower: the .lower() call is missing.
lower_missing(path) == path

\* str.lower()
lower(path) ==
    [k \in 1 .. Len(path) |->
        IF \E u \in 1 .. Len(UpperCase) : UpperCase[u] = path[k]
        THEN LowerCase[CHOOSE u \in 1 .. Len(UpperCase) : UpperCase[u] = path[k]]
        ELSE path[k]]

\* str.endswith(tuple of suffixes)
endswith(path, suffixes) ==
    \E x \in 1 .. Len(suffixes) :
        /\ Len(path) >= Len(suffixes[x])
        /\ SubSeq(path, Len(path) - Len(suffixes[x]) + 1, Len(path)) = suffixes[x]

\* os.path.basename: what follows the last "/".
basename(path) ==
    LET slashes == {k \in 1 .. Len(path) : path[k] = "/"}
    IN  IF slashes = {} THEN path
        ELSE SubSeq(path, (CHOOSE k \in slashes : \A j \in slashes : j <= k) + 1,
                    Len(path))

VIDEO_EXTENSIONS ==
    <<<<".", "m", "p", "4">>, <<".", "a", "v", "i">>, <<".", "m", "o", "v">>, <<".", "m", "k", "v">>>>

IMAGE_EXTENSIONS ==
    <<<<".", "p", "n", "g">>, <<".", "j", "p", "g">>, <<".", "j", "p", "e", "g">>, <<".", "b", "m", "p">>, <<".", "g", "i", "f">>>>

\* The branch load_current_media takes for filepath.
media_kind(filepath) ==
    IF endswith(lower(filepath), IMAGE_EXTENSIONS) THEN "Image"
    ELSE IF endswith(lower(filepath), VIDEO_EXTENSIONS) THEN "Video"
    ELSE "Unsupported"

\* The files a media list is made of: a lower-case image in a directory, an
\* upper-case image, a mixed-case video, a text file, and an image whose name
\* holds a video extension before its own.
FileNames ==
    {<<"d", "/", "a", ".", "j", "p", "g">>,
     <<"B", ".", "P", "N", "G">>,
     <<"c", ".", "M", "p", "4">>,
     <<"e", ".", "t", "x", "t">>,
     <<"f", ".", "m", "p", "4", ".", "g", "i", "f">>}

\* The lists MediaViewer can be constructed with: up to MaxFiles distinct
\* files in any order, or no file at all.
MediaLists ==
    {EmptyList} \cup
    UNION {{l \in [0 .. n - 1 -> FileNames] :
                \A i, j \in 0 .. n - 1 : l[i] = l[j] => i = j} : n \in 1 .. MaxFiles}

\* QPixmap(): the null pixmap; and the pixmap decoded from a file.
NullPixmap == [null |-> TRUE, of |-> <<>>]

PixmapOf(filepath) == [null |-> FALSE, of |-> filepath]

NoTitle == [kind |-> "", filename |-> <<>>]

\* No MediaViewer has been constructed.
NoMediaViewer ==
    /\ viewer_attrs = {}
    /\ media_files = EmptyList
    /\ current_index = 0
    /\ is_current_media_video = FALSE
    /\ original_pixmap = NullPixmap
    /\ window_title = NoTitle
    /\ media_label = NullPixmap
    /\ player_windows = <<>>
    /\ viewer_error = "none"

\* ------------------------------------------------ VideoPlayer: its values
\* QMediaPlayer() before setSource: an empty source.
NoSource == [valid |-> FALSE, duration |-> 0]

\* The controls set_controls_enabled switches.
PlaybackControls ==
    {"play_button", "stop_button", "rewind_button", "ff_button",
     "position_slider"}

\* The widgets of the control panel.
Controls ==
    PlaybackControls \cup {"open_button", "mute_button", "volume_slider"}

\* No VideoPlayer has been constructed.
NoVideoPlayer ==
    /\ source = NoSource
    /\ playback_state = "StoppedState"
    /\ position = 0
    /\ duration = 0
    /\ requested = {}
    /\ enabled = [c \in Controls |-> FALSE]
    /\ muted = FALSE
    /\ audio_volume = 0
    /\ volume_slider = 0
    /\ position_slider = [value |-> 0, maximum |-> 0]
    /\ tooltips = [play_button |-> "", mute_button |-> ""]
    /\ time_label = <<>>

\* -------------------------------------------- MediaScannerApp: its values
\* A disk without directories.
NoFs == [dirs |-> {}, files |-> {}, unreadable |-> {}, unlisted |-> {}]

\* No MediaScannerApp has been constructed.
NoScanner ==
    /\ fs = NoFs
    /\ model_rows = <<>>
    /\ parent_missing = FALSE
    /\ scanner_title = <<>>

\* ------------------------------------------------------------ the handlers
\* Mutant of update_button_states: total_pages taken as the page count
\* (the "- 1" dropped).
update_button_states_page_count(paths, page, per_page) ==
    LET total_images == len(paths)
        has_images == total_images > 0
        tp == IF ~has_images THEN 0 ELSE ceil(total_images, per_page)
    IN  [btn_home |-> has_images /\ page > 0,
         btn_prev |-> has_images /\ page > 0,
         btn_next |-> has_images /\ page < tp,
         btn_end |-> has_images /\ page < tp,
         total_pages |-> tp]

\* update_button_states: the four enabled flags and its local total_pages.
\* Mutant of update_button_states: Home is enabled on every page of a
\* non-empty collection.
update_button_states_home_always(paths, page, per_page) ==
    LET total_images == len(paths)
        has_images == total_images > 0
        tp == IF ~has_images THEN 0 ELSE ceil(total_images, per_page) - 1
    IN  [btn_home |-> has_images,
         btn_prev |-> has_images /\ page > 0,
         btn_next |-> has_images /\ page < tp,
         btn_end |-> has_images /\ page < tp,
         total_pages |-> tp]

update_button_states(paths, page, per_page) ==
    LET total_images == len(paths)
        has_images == total_images > 0
        tp == IF ~has_images THEN 0 ELSE ceil(total_images, per_page) - 1
    IN  [btn_home |-> has_images /\ page > 0,
         btn_prev |-> has_images /\ page > 0,
         btn_next |-> has_images /\ page < tp,
         btn_end |-> has_images /\ page < tp,
         total_pages |-> tp]

\* The first label at which the loop of display_page raises IndexError, or
\* per_page when it runs to its end.
first_raising(paths, start_index, per_page) ==
    LET n == len(paths)
        bad == {i \in 0 .. per_page - 1 :
                    /\ start_index + i < n
                    /\ ~InRange(paths, start_index + i)}
    IN  IF bad = {} THEN per_page
        ELSE CHOOSE i \in bad : \A j \in bad : i <= j

\* Mutant of display_labels: start_index = current_page (the page size
\* factor dropped).
display_labels_start_at_page(labels, paths, page, per_page) ==
    LET start_index == page
        stop == first_raising(paths, start_index, per_page)
        n == len(paths)
    IN  [labels |->
            [i \in 0 .. per_page - 1 |->
                LET image_index == start_index + i
                IN  IF i >= stop THEN labels[i]
                    ELSE IF image_index < n
                    THEN Pixmap(getitem(paths, image_index))
                    ELSE Cleared(i)],
         raised |-> stop < per_page]

\* The loop of display_page: the content of every label of the page, from the
\* labels as they were (kept from the label at which the loop raises), and
\* whether it raised.
display_labels(labels, paths, page, per_page) ==
    LET start_index == page * per_page
        stop == first_raising(paths, start_index, per_page)
        n == len(paths)
    IN  [labels |->
            [i \in 0 .. per_page - 1 |->
                LET image_index == start_index + i
                IN  IF i >= stop THEN labels[i]
                    ELSE IF image_index < n
                    THEN Pixmap(getitem(paths, image_index))
                    ELSE Cleared(i)],
         raised |-> stop < per_page]

\* Mutant of display_page: the trailing update_button_states() is missing.
display_page_no_buttons ==
    LET shown == display_labels(image_labels, image_paths', current_page',
                                images_per_page)
    IN  /\ image_labels' = shown.labels
        /\ raised' = shown.raised
        /\ UNCHANGED <<btn_home, btn_prev, btn_next, btn_end, total_pages>>

\* display_page, run on the state the handler has just assigned; when the
\* loop raises, update_button_states is not reached.
display_page ==
    LET shown == display_labels(image_labels, image_paths', current_page',
                                images_per_page)
    IN  /\ image_labels' = shown.labels
        /\ raised' = shown.raised
        /\ IF shown.raised
           THEN UNCHANGED <<btn_home, btn_prev, btn_next, btn_end, total_pages>>
           ELSE LET s == update_button_states(image_paths', current_page',
                                              images_per_page)
                IN  /\ btn_home' = s.btn_home
                    /\ btn_prev' = s.btn_prev
                    /\ btn_next' = s.btn_next
                    /\ btn_end' = s.btn_end
                    /\ total_pages' = s.total_pages

\* The handler returns without touching the widget.
untouched ==
    UNCHANGED <<image_paths, current_page, image_labels,
                btn_home, btn_prev, btn_next, btn_end, raised>>

\* A handler is invoked (while the program runs) on the current state.
entered(name, paths) ==
    /\ ~raised
    /\ op' = name
    /\ arg' = paths
    /\ pre' = [image_paths |-> image_paths, current_page |-> current_page]
    /\ UNCHANGED <<images_per_page, grid_layout>>
    /\ UNCHANGED <<viewer_vars, player_vars, scanner_vars>>

\* Mutant of open_images: current_page is not reset.
open_images_keeps_page ==
    \E paths \in Selections :
        /\ entered("open_images", paths)
        /\ IF len(paths) > 0
           THEN /\ image_paths' = paths
                /\ UNCHANGED current_page
                /\ display_page
           ELSE untouched /\ UNCHANGED total_pages

\* Mutant of open_images: the "if paths:" guard dropped.
open_images_unguarded ==
    \E paths \in Selections :
        /\ entered("open_images", paths)
        /\ image_paths' = paths
        /\ current_page' = 0
        /\ display_page

\* open_images: the dialog returns paths; an empty result changes nothing.
open_images ==
    \E paths \in Selections :
        /\ entered("open_images", paths)
        /\ IF len(paths) > 0
           THEN /\ image_paths' = paths
                /\ current_page' = 0
                /\ display_page
           ELSE untouched /\ UNCHANGED total_pages

\* Mutant of next_page: total_pages taken as the page count.
next_page_page_count ==
    /\ entered("next_page", EmptyList)
    /\ LET total_images == len(image_paths)
           tp == ceil(total_images, images_per_page)
       IN  IF current_page < tp
           THEN /\ current_page' = current_page + 1
                /\ UNCHANGED image_paths
                /\ display_page
           ELSE untouched /\ total_pages' = tp

\* Mutant of next_page: the "current_page < total_pages" guard dropped.
next_page_unguarded ==
    /\ entered("next_page", EmptyList)
    /\ current_page' = current_page + 1
    /\ UNCHANGED image_paths
    /\ display_page

next_page ==
    /\ entered("next_page", EmptyList)
    /\ LET total_images == len(image_paths)
           tp == ceil(total_images, images_per_page) - 1
       IN  IF current_page < tp
           THEN /\ current_page' = current_page + 1
                /\ UNCHANGED image_paths
                /\ display_page
           ELSE untouched /\ total_pages' = tp

\* Mutant of prev_page: the "current_page > 0" guard dropped.
prev_page_unguarded ==
    /\ entered("prev_page", EmptyList)
    /\ current_page' = current_page - 1
    /\ UNCHANGED image_paths
    /\ display_page

\* Mutant of prev_page: jumps to page 0 like first_page.
prev_page_to_first ==
    /\ entered("prev_page", EmptyList)
    /\ IF current_page > 0
       THEN /\ current_page' = 0
            /\ UNCHANGED image_paths
            /\ display_page
       ELSE untouched /\ UNCHANGED total_pages

prev_page ==
    /\ entered("prev_page", EmptyList)
    /\ IF current_page > 0
       THEN /\ current_page' = current_page - 1
            /\ UNCHANGED image_paths
            /\ display_page
       ELSE untouched /\ UNCHANGED total_pages

\* Mutant of first_page: "Home" also empties the collection.
first_page_resets_collection ==
    /\ entered("first_page", EmptyList)
    /\ current_page' = 0
    /\ image_paths' = EmptyList
    /\ display_page

first_page ==
    /\ entered("first_page", EmptyList)
    /\ current_page' = 0
    /\ UNCHANGED image_paths
    /\ display_page

\* Mutant of last_page: the page count taken as the last page (the "- 1"
\* dropped).
last_page_page_count ==
    /\ entered("last_page", EmptyList)
    /\ LET total_images == len(image_paths)
       IN  IF total_images > 0
           THEN /\ current_page' = ceil(total_images, images_per_page)
                /\ UNCHANGED image_paths
                /\ display_page
           ELSE untouched /\ UNCHANGED total_pages

\* Mutant of last_page: the "total_images > 0" guard dropped.
last_page_unguarded ==
    /\ entered("last_page", EmptyList)
    /\ LET total_images == len(image_paths)
       IN  /\ current_page' = ceil(total_images, images_per_page) - 1
           /\ UNCHANGED image_paths
           /\ display_page

last_page ==
    /\ entered("last_page", EmptyList)
    /\ LET total_images == len(image_paths)
       IN  IF total_images > 0
           THEN /\ current_page' = ceil(total_images, images_per_page) - 1
                /\ UNCHANGED image_paths
                /\ display_page
           ELSE untouched /\ UNCHANGED total_pages

\* Mutant of resizeEvent: it runs first_page() instead of display_page().
resizeEvent_first_page ==
    /\ entered("resizeEvent", EmptyList)
    /\ current_page' = 0
    /\ UNCHANGED image_paths
    /\ display_page

resizeEvent ==
    /\ entered("resizeEvent", EmptyList)
    /\ UNCHANGED <<image_paths, current_page>>
    /\ display_page

\* Mutant of Init: the constructor does not call update_button_states(), so
\* the buttons keep the enabled state Qt creates them with.
Init_no_update_button_states ==
    \E v \in Viewers :
        /\ images_per_page = v.images_per_page
        /\ grid_layout = [i \in 0 .. v.images_per_page - 1 |->
                              grid_position(i, v.per_row)]
        /\ image_paths = EmptyList
        /\ current_page = 0
        /\ image_labels = [i \in 0 .. v.images_per_page - 1 |-> Cleared(i)]
        /\ btn_home = TRUE
        /\ btn_prev = TRUE
        /\ btn_next = TRUE
        /\ btn_end = TRUE
        /\ total_pages = 0
        /\ raised = FALSE
        /\ op = "__init__"
        /\ arg = EmptyList
        /\ pre = [image_paths |-> EmptyList, current_page |-> 0]
        /\ NoMediaViewer
        /\ NoVideoPlayer
        /\ NoScanner

\* ImageGrid.__init__
Init ==
    \E v \in Viewers :
        /\ images_per_page = v.images_per_page
        /\ grid_layout = [i \in 0 .. v.images_per_page - 1 |->
                              grid_position(i, v.per_row)]
        /\ image_paths = EmptyList
        /\ current_page = 0
        /\ image_labels = [i \in 0 .. v.images_per_page - 1 |-> Cleared(i)]
        /\ LET s == update_button_states(image_paths, current_page,
                                          images_per_page)
           IN  /\ btn_home = s.btn_home
               /\ btn_prev = s.btn_prev
               /\ btn_next = s.btn_next
               /\ btn_end = s.btn_end
               /\ total_pages = s.total_pages
        /\ raised = FALSE
        /\ op = "__init__"
        /\ arg = EmptyList
        /\ pre = [image_paths |-> EmptyList, current_page |-> 0]
        /\ NoMediaViewer
        /\ NoVideoPlayer
        /\ NoScanner

Next ==
    \/ open_images
    \/ next_page
    \/ prev_page
    \/ first_page
    \/ last_page
    \/ resizeEvent

Spec == Init /\ [][Next]_vars

\* ============================================================ MediaViewer
\* The attributes MediaViewer.__init__ creates.
ViewerAttrs ==
    {"media_files", "current_index", "is_current_media_video",
     "original_pixmap", "player_windows", "media_label"}

\* No ImageGrid exists in the MediaViewer program.
NoImageGrid ==
    /\ images_per_page = 0
    /\ grid_layout = EmptyList
    /\ image_paths = EmptyList
    /\ current_page = 0
    /\ image_labels = EmptyList
    /\ btn_home = FALSE
    /\ btn_prev = FALSE
    /\ btn_next = FALSE
    /\ btn_end = FALSE
    /\ total_pages = 0
    /\ raised = FALSE

\* update_media_display: the label shows the (scaled) original pixmap, or the
\* null pixmap.
update_media_display(pixmap) == IF pixmap.null THEN NullPixmap ELSE pixmap

\* What load_current_media leaves behind; decoded says whether QPixmap(path)
\* or _get_video_frame(path) could read the file. "was" holds the values
\* before the call, which stay when media_files[current_index] raises.
load_current_media(files, index, decoded, was) ==
    IF ~InRange(files, index)
    THEN [was EXCEPT !.viewer_error = "IndexError"]
    ELSE LET filepath == getitem(files, index)
             filename == basename(filepath)
             kind == media_kind(filepath)
             pixmap == IF kind # "Unsupported" /\ decoded
                       THEN PixmapOf(filepath)
                       ELSE NullPixmap
         IN  [is_current_media_video |-> kind = "Video",
              original_pixmap |-> pixmap,
              window_title |-> [kind |-> kind, filename |-> filename],
              media_label |-> update_media_display(pixmap),
              viewer_error |-> "none"]

\* self.load_current_media() on the index the handler has just assigned.
loaded(was) ==
    \E decoded \in BOOLEAN :
        LET now == load_current_media(media_files', current_index', decoded, was)
        IN  /\ is_current_media_video' = now.is_current_media_video
            /\ original_pixmap' = now.original_pixmap
            /\ window_title' = now.window_title
            /\ media_label' = now.media_label
            /\ viewer_error' = now.viewer_error

\* The values load_current_media may overwrite, as they are.
as_is ==
    [is_current_media_video |-> is_current_media_video,
     original_pixmap |-> original_pixmap,
     window_title |-> window_title,
     media_label |-> media_label,
     viewer_error |-> viewer_error]

\* A slot of the constructed viewer is invoked (while the program runs).
viewer_entered(name) ==
    /\ op # "start"
    /\ viewer_error = "none"
    /\ op' = name
    /\ pre' = [current_index |-> current_index,
               windows |-> Len(player_windows)]
    /\ UNCHANGED <<arg, grid_vars, player_vars, scanner_vars, viewer_attrs,
                   media_files>>

\* The slot returns without loading anything.
not_loaded ==
    UNCHANGED <<current_index, is_current_media_video, original_pixmap,
                window_title, media_label, viewer_error>>

\* Mutant of MediaViewer_init: the "if not media_files" check is missing.
MediaViewer_init_unchecked ==
    /\ op = "start"
    /\ op' = "__init__"
    /\ pre' = [current_index |-> current_index,
               windows |-> Len(player_windows)]
    /\ UNCHANGED <<arg, grid_vars, player_vars, scanner_vars>>
    /\ media_files' = arg
    /\ current_index' = 0
    /\ player_windows' = <<>>
    /\ viewer_attrs' = ViewerAttrs
    /\ loaded([is_current_media_video |-> FALSE,
               original_pixmap |-> NullPixmap,
               window_title |-> [kind |-> "Media Viewer", filename |-> <<>>],
               media_label |-> NullPixmap,
               viewer_error |-> "none"])

\* MediaViewer.__init__(media_files)
MediaViewer_init ==
    /\ op = "start"
    /\ op' = "__init__"
    /\ pre' = [current_index |-> current_index,
               windows |-> Len(player_windows)]
    /\ UNCHANGED <<arg, grid_vars, player_vars, scanner_vars>>
    /\ IF len(arg) = 0
       THEN /\ viewer_error' = "ValueError"
            /\ UNCHANGED <<viewer_attrs, media_files, current_index,
                           is_current_media_video, original_pixmap,
                           window_title, media_label, player_windows>>
       ELSE /\ media_files' = arg
            /\ current_index' = 0
            /\ player_windows' = <<>>
            /\ viewer_attrs' = ViewerAttrs
            /\ loaded([is_current_media_video |-> FALSE,
                       original_pixmap |-> NullPixmap,
                       window_title |-> [kind |-> "Media Viewer",
                                         filename |-> <<>>],
                       media_label |-> NullPixmap,
                       viewer_error |-> "none"])

\* Mutant of go_to_next: the item is not loaded after the move.
go_to_next_not_loaded ==
    /\ viewer_entered("go_to_next")
    /\ UNCHANGED player_windows
    /\ IF current_index < len(media_files) - 1
       THEN /\ current_index' = current_index + 1
            /\ UNCHANGED <<is_current_media_video, original_pixmap,
                           window_title, media_label, viewer_error>>
       ELSE not_loaded

go_to_next ==
    /\ viewer_entered("go_to_next")
    /\ UNCHANGED player_windows
    /\ IF current_index < len(media_files) - 1
       THEN /\ current_index' = current_index + 1
            /\ loaded(as_is)
       ELSE not_loaded

\* Mutant of go_to_previous: the "current_index > 0" test is missing.
go_to_previous_unguarded ==
    /\ viewer_entered("go_to_previous")
    /\ UNCHANGED player_windows
    /\ current_index' = current_index - 1
    /\ loaded(as_is)

go_to_previous ==
    /\ viewer_entered("go_to_previous")
    /\ UNCHANGED player_windows
    /\ IF current_index > 0
       THEN /\ current_index' = current_index - 1
            /\ loaded(as_is)
       ELSE not_loaded

go_to_first ==
    /\ viewer_entered("go_to_first")
    /\ UNCHANGED player_windows
    /\ IF current_index # 0
       THEN /\ current_index' = 0
            /\ loaded(as_is)
       ELSE not_loaded

go_to_last ==
    /\ viewer_entered("go_to_last")
    /\ UNCHANGED player_windows
    /\ IF current_index # len(media_files) - 1
       THEN /\ current_index' = len(media_files) - 1
            /\ loaded(as_is)
       ELSE not_loaded

\* handle_double_click: a VideoPlayerWindow for the current path, kept in
\* player_windows.
handle_double_click ==
    /\ Len(player_windows) < MaxPlayerWindows
    /\ viewer_entered("handle_double_click")
    /\ not_loaded
    /\ IF is_current_media_video
       THEN LET filepath == getitem(media_files, current_index)
            IN  player_windows' = Append(player_windows, filepath)
       ELSE UNCHANGED player_windows

\* MediaViewer.resizeEvent
viewer_resizeEvent ==
    /\ viewer_entered("resizeEvent")
    /\ media_label' = update_media_display(original_pixmap)
    /\ UNCHANGED <<current_index, is_current_media_video, original_pixmap,
                   window_title, viewer_error, player_windows>>

\* The program before MediaViewer(media_files) is evaluated.
ViewerInit ==
    /\ NoImageGrid
    /\ NoMediaViewer
    /\ NoVideoPlayer
    /\ NoScanner
    /\ op = "start"
    /\ arg \in MediaLists
    /\ pre = [current_index |-> 0, windows |-> 0]

ViewerNext ==
    \/ MediaViewer_init
    \/ go_to_next
    \/ go_to_previous
    \/ go_to_first
    \/ go_to_last
    \/ handle_double_click
    \/ viewer_resizeEvent

ViewerSpec == ViewerInit /\ [][ViewerNext]_vars

\* ============================================================ VideoPlayer
\* src/_test/player.py: class VideoPlayer. A button's clicked signal reaches
\* its slot only while the button is enabled. The signals of the media
\* player (durationChanged, positionChanged, errorOccurred) arrive from the
\* event loop, between handlers.

Min(a, b) == IF a <= b THEN a ELSE b

\* The larger of two numbers (Python's max).
max(a, b) == IF a >= b THEN a ELSE b

\* The durations, in ms, of the files the dialog offers: one whose duration
\* is never known, one shorter than a seek step, one two steps long, and the
\* longest.
Durations == {0, 3000, 2 * ForwardStep, MaxDuration}

\* What QFileDialog.getOpenFileUrl can return: the URL of a file, or an
\* invalid URL when the dialog is cancelled.
Urls == {NoSource} \cup {[valid |-> TRUE, duration |-> d] : d \in Durations}

\* The positions playback reports and the slider can be dragged to.
Positions(d) == {q \in 0 .. d : q % PositionGrain = 0 \/ q = d}

\* The values the volume slider is dragged to.
Volumes == {0, 30, 75}

\* f"{n:02d}"
TwoDigits(n) == <<n \div 10, n % 10>>

\* format_time: MM:SS, or HH:MM:SS from one hour on.
format_time(milliseconds) ==
    LET seconds == (milliseconds \div 1000) % 60
        minutes == (milliseconds \div (1000 * 60)) % 60
        hours == (milliseconds \div (1000 * 60 * 60)) % 24
    IN  IF hours > 0
        THEN TwoDigits(hours) \o <<":">> \o TwoDigits(minutes) \o <<":">>
                 \o TwoDigits(seconds)
        ELSE TwoDigits(minutes) \o <<":">> \o TwoDigits(seconds)

\* f"{format_time(position)} / {format_time(duration)}"
TimeLabel(pos, dur) == format_time(pos) \o <<" / ">> \o format_time(dur)

ErrorLabel == <<"Error">>

\* set_controls_enabled(value)
set_controls_enabled(now, value) ==
    [c \in Controls |-> IF c \in PlaybackControls THEN value ELSE now[c]]

\* update_play_button_icon(state): the tooltip of the play button.
update_play_button_icon(state) ==
    IF state = "PlayingState" THEN "Pause" ELSE "Play"

\* The playback state becomes state; playbackStateChanged reaches
\* update_play_button_icon when it differs.
playing(state) ==
    /\ playback_state' = state
    /\ tooltips' = IF state # playback_state
                   THEN [tooltips EXCEPT
                            !.play_button = update_play_button_icon(state)]
                   ELSE tooltips

\* The position becomes q; positionChanged reaches update_slider_and_label
\* when it differs. The slider keeps its value inside its range.
moved(q, slider) ==
    /\ position' = q
    /\ IF q # position
       THEN /\ position_slider' =
                  [slider EXCEPT !.value = Min(q, slider.maximum)]
            /\ time_label' = TimeLabel(q, duration)
       ELSE /\ position_slider' = slider
            /\ UNCHANGED time_label

\* self.media_player.setPosition(p): the player seeks inside the medium.
setPosition(p, slider) ==
    /\ requested' = {p}
    /\ moved(Min(max(p, 0), duration), slider)

\* A slot of the constructed player is invoked with argument a.
player_entered(name, a) ==
    /\ op # "start"
    /\ op' = name
    /\ arg' = a
    /\ pre' = [position |-> position, muted |-> muted]
    /\ UNCHANGED <<grid_vars, viewer_vars, scanner_vars>>

\* VideoPlayer.__init__
VideoPlayer_init ==
    /\ op = "start"
    /\ op' = "__init__"
    /\ UNCHANGED <<arg, pre, grid_vars, viewer_vars, scanner_vars>>
    /\ source' = NoSource
    /\ playback_state' = "StoppedState"
    /\ position' = 0
    /\ duration' = 0
    /\ requested' = {}
    /\ position_slider' = [value |-> 0, maximum |-> 0]
    /\ time_label' = TimeLabel(0, 0)
    /\ tooltips' = [play_button |-> "Play", mute_button |-> "Mute"]
    /\ muted' = FALSE
    /\ volume_slider' = InitialVolume
    /\ audio_volume' = InitialVolume
    /\ LET created == [c \in Controls |-> TRUE]
           switched == set_controls_enabled(created, FALSE)
       IN  enabled' = [switched EXCEPT !.mute_button = TRUE,
                                       !.volume_slider = TRUE]

\* open_file: setSource stops the player and forgets position and duration
\* (the label then shows the duration either as it was or as 0, as
\* positionChanged comes before or after durationChanged), then the controls
\* are enabled and play_video starts playback.
open_file ==
    /\ enabled.open_button
    /\ \E file_url \in Urls :
          /\ player_entered("open_file", file_url)
          /\ requested' = {}
          /\ UNCHANGED <<muted, audio_volume, volume_slider>>
          /\ IF file_url.valid
             THEN /\ source' = file_url
                  /\ duration' = 0
                  /\ position' = 0
                  /\ position_slider' = [value |-> 0, maximum |-> 0]
                  /\ \E shown \in {duration, 0} :
                        time_label' = IF position # 0
                                      THEN TimeLabel(0, shown)
                                      ELSE time_label
                  /\ enabled' = set_controls_enabled(enabled, TRUE)
                  /\ playback_state' = "PlayingState"
                  /\ tooltips' = [tooltips EXCEPT !.play_button =
                                     update_play_button_icon("PlayingState")]
             ELSE UNCHANGED <<source, duration, position, position_slider,
                              time_label, enabled, playback_state, tooltips>>

\* play_video
play_video ==
    /\ enabled.play_button
    /\ player_entered("play_video", 0)
    /\ requested' = {}
    /\ IF playback_state = "PlayingState"
       THEN playing("PausedState")
       ELSE playing("PlayingState")
    /\ UNCHANGED <<source, position, duration, enabled, muted, audio_volume,
                   volume_slider, position_slider, time_label>>

\* stop_video: stop() also returns to the start.
stop_video ==
    /\ enabled.stop_button
    /\ player_entered("stop_video", 0)
    /\ requested' = {}
    /\ playing("StoppedState")
    /\ moved(0, position_slider)
    /\ UNCHANGED <<source, duration, enabled, muted, audio_volume,
                   volume_slider>>

\* Mutant of rewind_video: the max(0, ...) is missing.
rewind_video_unclamped ==
    /\ enabled.rewind_button
    /\ player_entered("rewind_video", 0)
    /\ LET current_position == position
           new_position == current_position - RewindStep
       IN  setPosition(new_position, position_slider)
    /\ UNCHANGED <<source, playback_state, duration, enabled, muted,
                   audio_volume, volume_slider, tooltips>>

\* rewind_video
rewind_video ==
    /\ enabled.rewind_button
    /\ player_entered("rewind_video", 0)
    /\ LET current_position == position
           new_position == max(0, current_position - RewindStep)
       IN  setPosition(new_position, position_slider)
    /\ UNCHANGED <<source, playback_state, duration, enabled, muted,
                   audio_volume, volume_slider, tooltips>>

\* fast_forward_video
fast_forward_video ==
    /\ enabled.ff_button
    /\ player_entered("fast_forward_video", 0)
    /\ LET current_position == position
           new_position == current_position + ForwardStep
       IN  IF new_position < duration
           THEN setPosition(new_position, position_slider)
           ELSE /\ requested' = {}
                /\ UNCHANGED <<position, position_slider, time_label>>
    /\ UNCHANGED <<source, playback_state, duration, enabled, muted,
                   audio_volume, volume_slider, tooltips>>

\* set_position: the user has dragged the slider to a value of its range.
set_position ==
    /\ enabled.position_slider
    /\ \E p \in Positions(position_slider.maximum) :
          /\ p # position_slider.value
          /\ player_entered("set_position", p)
          /\ setPosition(p, [position_slider EXCEPT !.value = p])
    /\ UNCHANGED <<source, playback_state, duration, enabled, muted,
                   audio_volume, volume_slider, tooltips>>

\* The body of toggle_mute: the muted flag and the tooltip it leaves.
toggle_mute_body(is_muted) ==
    IF ~is_muted
    THEN [muted |-> TRUE, tooltip |-> "Unmute"]
    ELSE [muted |-> FALSE, tooltip |-> "Mute"]

\* toggle_mute
toggle_mute ==
    /\ enabled.mute_button
    /\ player_entered("toggle_mute", 0)
    /\ requested' = {}
    /\ LET now == toggle_mute_body(muted)
       IN  /\ muted' = now.muted
           /\ tooltips' = [tooltips EXCEPT !.mute_button = now.tooltip]
    /\ UNCHANGED <<source, playback_state, position, duration, enabled,
                   audio_volume, volume_slider, position_slider, time_label>>

\* Mutant of set_volume: a muted output stays muted.
set_volume_stays_muted ==
    /\ enabled.volume_slider
    /\ \E volume \in Volumes \ {volume_slider} :
          /\ player_entered("set_volume", volume)
          /\ volume_slider' = volume
          /\ audio_volume' = volume
          /\ UNCHANGED <<muted, tooltips>>
    /\ requested' = {}
    /\ UNCHANGED <<source, playback_state, position, duration, enabled,
                   position_slider, time_label>>

\* set_volume: the slider's valueChanged carries its new value.
set_volume ==
    /\ enabled.volume_slider
    /\ \E volume \in Volumes \ {volume_slider} :
          /\ player_entered("set_volume", volume)
          /\ volume_slider' = volume
          /\ audio_volume' = volume
          /\ IF volume > 0 /\ muted
             THEN LET now == toggle_mute_body(muted)
                  IN  /\ muted' = now.muted
                      /\ tooltips' =
                            [tooltips EXCEPT !.mute_button = now.tooltip]
             ELSE UNCHANGED <<muted, tooltips>>
    /\ requested' = {}
    /\ UNCHANGED <<source, playback_state, position, duration, enabled,
                   position_slider, time_label>>

\* durationChanged -> update_slider_range: the medium is loaded and its
\* duration known.
update_slider_range ==
    /\ source.valid
    /\ duration # source.duration
    /\ player_entered("update_slider_range", source.duration)
    /\ requested' = {}
    /\ duration' = source.duration
    /\ position_slider' =
          [value |-> Min(position_slider.value, source.duration),
           maximum |-> source.duration]
    /\ UNCHANGED <<source, playback_state, position, enabled, muted,
                   audio_volume, volume_slider, tooltips, time_label>>

\* positionChanged -> update_slider_and_label: playback has moved on; at the
\* end of the medium it stops.
update_slider_and_label ==
    /\ playback_state = "PlayingState"
    /\ \E q \in Positions(duration) \ {position} :
          /\ player_entered("update_slider_and_label", q)
          /\ moved(q, position_slider)
          /\ IF q = duration
             THEN playing("StoppedState")
             ELSE UNCHANGED <<playback_state, tooltips>>
    /\ requested' = {}
    /\ UNCHANGED <<source, duration, enabled, muted, audio_volume,
                   volume_slider>>

\* Mutant of handle_error: the controls are left as they are.
handle_error_keeps_controls ==
    /\ source.valid
    /\ player_entered("handle_error", 0)
    /\ requested' = {}
    /\ UNCHANGED enabled
    /\ time_label' = ErrorLabel
    /\ \E state \in {playback_state, "StoppedState"} : playing(state)
    /\ UNCHANGED <<source, position, duration, muted, audio_volume,
                   volume_slider, position_slider>>

\* errorOccurred -> handle_error: the player may have stopped as well.
handle_error ==
    /\ source.valid
    /\ player_entered("handle_error", 0)
    /\ requested' = {}
    /\ enabled' = set_controls_enabled(enabled, FALSE)
    /\ time_label' = ErrorLabel
    /\ \E state \in {playback_state, "StoppedState"} : playing(state)
    /\ UNCHANGED <<source, position, duration, muted, audio_volume,
                   volume_slider, position_slider>>

\* The program before VideoPlayer() is evaluated.
PlayerInit ==
    /\ NoImageGrid
    /\ NoMediaViewer
    /\ NoVideoPlayer
    /\ NoScanner
    /\ op = "start"
    /\ arg = 0
    /\ pre = [position |-> 0, muted |-> FALSE]

PlayerNext ==
    \/ VideoPlayer_init
    \/ open_file
    \/ play_video
    \/ stop_video
    \/ rewind_video
    \/ fast_forward_video
    \/ set_position
    \/ toggle_mute
    \/ set_volume
    \/ update_slider_range
    \/ update_slider_and_label
    \/ handle_error

PlayerSpec == PlayerInit /\ [][PlayerNext]_vars

\* ======================================================== MediaScannerApp
\* src/_test/qtreeview_media_scanner.py: class MediaScannerApp. Paths and
\* names are sequences of characters; a directory is known by its path, a
\* file by its directory and name. on_selection_changed only prints and is
\* left out.

\* self.IMAGE_EXTENSIONS, self.VIDEO_EXTENSIONS, self.MEDIA_EXTENSIONS
Scanner_IMAGE_EXTENSIONS ==
    <<<<".", "p", "n", "g">>,
      <<".", "j", "p", "g">>,
      <<".", "j", "p", "e", "g">>,
      <<".", "g", "i", "f">>,
      <<".", "b", "m", "p">>,
      <<".", "t", "i", "f", "f">>,
      <<".", "w", "e", "b", "p">>>>

Scanner_VIDEO_EXTENSIONS ==
    <<<<".", "m", "p", "4">>,
      <<".", "a", "v", "i">>,
      <<".", "m", "o", "v">>,
      <<".", "m", "k", "v">>,
      <<".", "w", "m", "v">>,
      <<".", "f", "l", "v">>>>

MEDIA_EXTENSIONS == Scanner_IMAGE_EXTENSIONS \o Scanner_VIDEO_EXTENSIONS

Digits == <<"0", "1", "2", "3", "4", "5", "6", "7", "8", "9">>

\* ord(c) of the characters names are made of.
CodePoint(c) ==
    IF c = "." THEN 46
    ELSE IF c = "/" THEN 47
    ELSE IF \E k \in 1 .. Len(Digits) : Digits[k] = c
    THEN 47 + (CHOOSE k \in 1 .. Len(Digits) : Digits[k] = c)
    ELSE IF \E k \in 1 .. Len(UpperCase) : UpperCase[k] = c
    THEN 64 + (CHOOSE k \in 1 .. Len(UpperCase) : UpperCase[k] = c)
    ELSE 96 + (CHOOSE k \in 1 .. Len(LowerCase) : LowerCase[k] = c)

\* a < b for Python strings: by the first character that differs, a proper
\* prefix first.
StrLess(a, b) ==
    \E k \in 1 .. Len(b) :
        /\ k <= Len(a) + 1
        /\ \A j \in 1 .. k - 1 : a[j] = b[j]
        /\ k = Len(a) + 1 \/ CodePoint(a[k]) < CodePoint(b[k])

\* sorted(names)
RECURSIVE sorted(_)
sorted(names) ==
    IF names = {} THEN <<>>
    ELSE LET first == CHOOSE n \in names :
                          \A m \in names \ {n} : StrLess(n, m)
         IN  <<first>> \o sorted(names \ {first})

\* reversed(l)
Reversed(l) == [k \in 1 .. Len(l) |-> l[Len(l) + 1 - k]]

\* os.path.join(root, name), name being relative.
join(root, name) ==
    IF root = <<>> THEN name
    ELSE IF root[Len(root)] = "/" THEN root \o name
    ELSE root \o <<"/">> \o name

\* The directories there can be: a folder, two sub-folders, and a folder
\* inside the first of them.
TopFolder == <<"/", "p">>
AllDirs ==
    {TopFolder, join(TopFolder, <<"x">>), join(TopFolder, <<"Y">>),
     join(join(TopFolder, <<"x">>), <<"x">>)}

\* The file names there can be: a picture with an upper-case extension and a
\* text file.
ScanNames ==
    {<<"a", ".", "J", "P", "G">>,
     <<"b", ".", "t", "x", "t">>}

\* The directory a path is in.
ParentDir(path) ==
    SubSeq(path, 1, Len(path) - Len(basename(path)) - 1)

\* The directory sets that are closed under "the directory it is in".
DirTrees ==
    {D \in SUBSET AllDirs :
        /\ TopFolder \in D
        /\ \A d \in D \ {TopFolder} : ParentDir(d) \in D}

\* The files there can be in the directories D.
FilesIn(D) == {[dir |-> d, name |-> n] : d \in D, n \in ScanNames}

\* The disks: a directory tree, at most MaxFsFiles files in it, at most one
\* file with a media extension whose size cannot be read (os.path.getsize
\* raises OSError), and at most one directory that cannot be listed
\* (os.scandir raises OSError, which os.walk ignores).
FileSystems ==
    UNION {UNION {{[dirs |-> D, files |-> F, unreadable |-> U, unlisted |-> L] :
                      U \in {{}} \cup {{f} : f \in {g \in F :
                              endswith(lower(g.name), MEDIA_EXTENSIONS)}},
                      L \in {{}} \cup {{d} : d \in D}} :
                  F \in {G \in SUBSET FilesIn(D) : Cardinality(G) <= MaxFsFiles}} :
           D \in DirTrees}

\* The names os.walk lists for a directory: its sub-directories and its files.
listdir(disk, root) ==
    [dirs |-> {basename(d) : d \in {e \in disk.dirs :
                                      e # root /\ ParentDir(e) = root
                                      /\ e = join(root, basename(e))}},
     files |-> {f.name : f \in {g \in disk.files : g.dir = root}}]

\* QStandardItem(f"folder {name}") and the row [item_name, item_size] of a
\* file, item_name carrying the full path as its data.
FolderItem(parent, name) ==
    [parent |-> parent, icon |-> "folder", name |-> name, data |-> <<>>,
     columns |-> 1]

FileItem(parent, filename, full_path) ==
    [parent |-> parent, icon |-> "file", name |-> filename,
     data |-> full_path, columns |-> 2]

\* The rows one pass of the loop "for dir_name in sorted(dirs)" appends.
folder_rows(parent_item, dirs) ==
    [k \in 1 .. Len(dirs) |-> FolderItem(parent_item, dirs[k])]

\* The rows the loop "for filename in sorted(files)" appends: the files with
\* a media extension whose size can be read.
RECURSIVE file_rows(_, _, _, _)
file_rows(disk, parent_item, root, files) ==
    IF files = <<>> THEN <<>>
    ELSE LET filename == Head(files)
             full_path == join(root, filename)
             rest == file_rows(disk, parent_item, root, Tail(files))
         IN  IF /\ endswith(lower(filename), MEDIA_EXTENSIONS)
                /\ [dir |-> root, name |-> filename] \notin disk.unreadable
             THEN <<FileItem(parent_item, filename, full_path)>> \o rest
             ELSE rest

\* The loop "for root, dirs, files in os.walk(folder_path)": to_visit holds
\* the directories os.walk has still to yield, in its order; rows are the
\* items of the model, an item being known by its place in rows;
\* folder_items maps a path to its item; skipped tells whether the
\* "parent_item is None" skip has fired. os.walk yields nothing for a
\* directory it cannot list, and does not go below it.
RECURSIVE walk(_, _, _, _, _, _)
walk(disk, descending, to_visit, rows, folder_items, skipped) ==
    IF to_visit = <<>> THEN [rows |-> rows, parent_missing |-> skipped]
    ELSE LET root == Head(to_visit)
             listed == listdir(disk, root)
             dirs == sorted(listed.dirs)
             files == sorted(listed.files)
             scandir == IF descending THEN Reversed(dirs) ELSE dirs
             below == [k \in 1 .. Len(scandir) |-> join(root, scandir[k])]
             next == below \o Tail(to_visit)
         IN  IF root \in disk.unlisted
             THEN walk(disk, descending, Tail(to_visit), rows, folder_items,
                       skipped)
             ELSE IF root \notin DOMAIN folder_items
             THEN walk(disk, descending, next, rows, folder_items, TRUE)
             ELSE LET parent_item == folder_items[root]
                      with_dirs == rows \o folder_rows(parent_item, dirs)
                      new == {join(root, dirs[k]) : k \in 1 .. Len(dirs)}
                      items == [q \in DOMAIN folder_items \cup new |->
                                  IF q \in new
                                  THEN Len(rows) + (CHOOSE k \in 1 .. Len(dirs) :
                                                      join(root, dirs[k]) = q)
                                  ELSE folder_items[q]]
                      with_files == with_dirs \o
                                    file_rows(disk, parent_item, root, files)
                  IN  walk(disk, descending, next, with_files, items, skipped)

\* Mutant of scan_folder: the rows of the previous scan are not removed.
scan_folder_keeps_rows(disk, rows, folder_path, descending) ==
    LET top_folder_name == basename(folder_path)
        top_level_item == FolderItem(0, top_folder_name)
        kept == rows \o <<top_level_item>>
        folder_items == [q \in {folder_path} |-> Len(kept)]
    IN  walk(disk, descending, <<folder_path>>, kept, folder_items, FALSE)

\* scan_folder: rows are the items of the model before the call; item 0 is
\* the invisible root.
scan_folder(disk, rows, folder_path, descending) ==
    LET cleared == SubSeq(rows, 1, 0)
        top_folder_name == basename(folder_path)
        top_level_item == FolderItem(0, top_folder_name)
        kept == cleared \o <<top_level_item>>
        folder_items == [q \in {folder_path} |-> Len(kept)]
    IN  walk(disk, descending, <<folder_path>>, kept, folder_items, FALSE)

\* MediaScannerApp.__init__
MediaScannerApp_init ==
    /\ op = "start"
    /\ op' = "__init__"
    /\ model_rows' = <<>>
    /\ parent_missing' = FALSE
    /\ scanner_title' = <<"Hierarchical Media File Scanner">>
    /\ UNCHANGED <<arg, pre, fs, grid_vars, viewer_vars, player_vars>>

\* open_folder_dialog: the dialog returns an existing directory, or "" when
\* cancelled; os.walk lists the sub-directories in either order.
open_folder_dialog ==
    /\ op # "start"
    /\ op' = "open_folder_dialog"
    /\ pre' = [scanned |-> model_rows # <<>>]
    /\ UNCHANGED <<fs, grid_vars, viewer_vars, player_vars>>
    /\ \E folder_path \in fs.dirs \cup {<<>>} :
          /\ arg' = folder_path
          /\ IF folder_path # <<>>
             THEN /\ scanner_title' =
                        <<"Hierarchical Media Scanner - ">> \o folder_path
                  /\ \E descending \in BOOLEAN :
                        LET scanned == scan_folder(fs, model_rows, folder_path,
                                                   descending)
                        IN  /\ model_rows' = scanned.rows
                            /\ parent_missing' = scanned.parent_missing
             ELSE UNCHANGED <<model_rows, parent_missing, scanner_title>>

\* The program before MediaScannerApp() is evaluated, on some disk.
ScannerInit ==
    /\ NoImageGrid
    /\ NoMediaViewer
    /\ NoVideoPlayer
    /\ fs \in FileSystems
    /\ model_rows = <<>>
    /\ parent_missing = FALSE
    /\ scanner_title = <<>>
    /\ op = "start"
    /\ arg = <<>>
    /\ pre = [scanned |-> FALSE]

ScannerNext ==
    \/ MediaScannerApp_init
    \/ open_folder_dialog

ScannerSpec == ScannerInit /\ [][ScannerNext]_vars

\* ================================================================ claims
\* The specification's totalPages: the least k with k * pageCapacity >= N.
TotalPages ==
    LET N == len(image_paths)
    IN  CHOOSE k \in 0 .. N :
            /\ k * images_per_page >= N
            /\ \A j \in 0 .. k - 1 : j * images_per_page < N

\* totalPages of the collection the last handler was entered with.
PreTotalPages ==
    LET N == len(pre.image_paths)
    IN  CHOOSE k \in 0 .. N :
            /\ k * images_per_page >= N
            /\ \A j \in 0 .. k - 1 : j * images_per_page < N

Max(a, b) == IF a >= b THEN a ELSE b

\* "empty": the cleared label of cell i.
IsEmptyCell(i) == image_labels[i] = Cleared(i)

\* C1: in every reachable state current_page is in [0, max(totalPages-1, 0)].
C1_CurrentPageValid ==
    /\ current_page >= 0
    /\ current_page <= Max(TotalPages - 1, 0)

\* C1 witness: next_page has just moved onto the last of three or more pages.
C1_Witness ==
    /\ op = "next_page"
    /\ current_page = pre.current_page + 1
    /\ current_page = TotalPages - 1
    /\ current_page >= 2

\* C2: cell i of the page shows the item at position
\* current_page * pageCapacity + i when that position is inside the collection,
\* and is empty otherwise.
C2_CellContent ==
    \A i \in 0 .. images_per_page - 1 :
        LET pos == current_page * images_per_page + i
        IN  IF pos < len(image_paths)
            THEN image_labels[i] = Pixmap(image_paths[pos])
            ELSE IsEmptyCell(i)

\* C2 witness: a later page that is partly filled is displayed.
C2_Witness ==
    /\ current_page >= 1
    /\ len(image_paths) > current_page * images_per_page + 1
    /\ len(image_paths) < (current_page + 1) * images_per_page
    /\ image_labels[1] = Pixmap(image_paths[current_page * images_per_page + 1])
    /\ IsEmptyCell(images_per_page - 1)

\* C3 (as stated): the total_pages value the grid computes is the page count
\* ceil(N / pageCapacity), 0 when N = 0.
C3_TotalPagesIsCount == total_pages = TotalPages

\* C3 (amended): the total_pages value the grid computes is the index of the
\* last page, ceil(N / pageCapacity) - 1, when N > 0, with pages addressed
\* 0 .. total_pages; when N = 0 it is 0 (update_button_states) or -1
\* (next_page).
C3_TotalPagesIsLastIndex ==
    /\ len(image_paths) > 0 =>
          /\ total_pages = TotalPages - 1
          /\ current_page \in 0 .. total_pages
    /\ len(image_paths) = 0 =>
          /\ total_pages \in {0, -1}
          /\ op = "next_page" => total_pages = -1
          /\ op \in {"__init__", "resizeEvent", "first_page"} => total_pages = 0

\* C3 witness: next_page computed total_pages and moved onto that page.
C3_Witness ==
    /\ op = "next_page"
    /\ len(image_paths) > images_per_page
    /\ current_page = pre.current_page + 1
    /\ current_page = total_pages

\* C4 (as stated): open_images replaces the collection with the selected
\* items, in order, and resets current_page to 0.
C4_OpenReplaces ==
    op = "open_images" => (image_paths = arg /\ current_page = 0)

\* C4 (amended): open_images with a non-empty selection replaces the
\* collection with the selected items, in order, and resets current_page to 0;
\* with an empty selection it leaves the collection and current_page as they
\* were.
C4_OpenReplacesNonEmpty ==
    op = "open_images" =>
        IF len(arg) > 0
        THEN image_paths = arg /\ current_page = 0
        ELSE image_paths = pre.image_paths /\ current_page = pre.current_page

\* C4 witness: a non-empty selection replaced another collection shown on a
\* later page.
C4_Witness ==
    /\ op = "open_images"
    /\ len(arg) > 0
    /\ pre.current_page > 0
    /\ pre.image_paths # arg
    /\ image_paths = arg
    /\ current_page = 0

\* C5 (as stated): after open_images with an empty selection totalPages is 0,
\* next and prev are disabled and every cell is empty.
C5_EmptySelectionClears ==
    (op = "open_images" /\ len(arg) = 0) =>
        /\ TotalPages = 0
        /\ ~btn_next /\ ~btn_prev
        /\ \A i \in 0 .. images_per_page - 1 : IsEmptyCell(i)

\* C5 (amended): open_images with an empty selection leaves the collection
\* and the page as they were; totalPages is 0, next and prev are disabled and
\* every cell is empty exactly when the collection was already empty.
C5_EmptySelectionIsNoOp ==
    (op = "open_images" /\ len(arg) = 0) =>
        /\ image_paths = pre.image_paths
        /\ current_page = pre.current_page
        /\ len(pre.image_paths) = 0 =>
              /\ TotalPages = 0
              /\ ~btn_next /\ ~btn_prev
              /\ \A i \in 0 .. images_per_page - 1 : IsEmptyCell(i)
        /\ len(pre.image_paths) > 0 =>
              /\ TotalPages > 0
              /\ ~IsEmptyCell(0)

\* C5 witness: the dialog was cancelled over a collection shown on a later
\* page, which is still shown.
C5_Witness ==
    /\ op = "open_images"
    /\ len(arg) = 0
    /\ len(image_paths) > 0
    /\ pre.current_page >= 1
    /\ current_page = pre.current_page
    /\ btn_prev

\* C6: next_page on the last page (or an empty collection) and prev_page on
\* page 0 leave current_page and the collection unchanged.
C6_BoundaryNoOp ==
    /\ (op = "next_page" /\ pre.current_page >= PreTotalPages - 1) =>
          (current_page = pre.current_page /\ image_paths = pre.image_paths)
    /\ (op = "prev_page" /\ pre.current_page = 0) =>
          (current_page = pre.current_page /\ image_paths = pre.image_paths)

\* C6 witness: next_page was called on the last of several pages.
C6_Witness ==
    /\ op = "next_page"
    /\ PreTotalPages >= 2
    /\ pre.current_page = PreTotalPages - 1
    /\ current_page = pre.current_page

\* C7: next_page below the last page adds exactly 1 to current_page,
\* prev_page above page 0 subtracts exactly 1, and neither moves further.
C7_StepByOne ==
    /\ (op = "next_page" /\ pre.current_page < PreTotalPages - 1) =>
          current_page = pre.current_page + 1
    /\ (op = "prev_page" /\ pre.current_page > 0) =>
          current_page = pre.current_page - 1
    /\ op \in {"next_page", "prev_page"} =>
          /\ current_page - pre.current_page \in {-1, 0, 1}
          /\ image_paths = pre.image_paths

\* C7 witness: prev_page stepped from page 2 to page 1.
C7_Witness ==
    /\ op = "prev_page"
    /\ pre.current_page = 2
    /\ current_page = 1

\* C8: first_page sets current_page to 0; last_page sets it to totalPages - 1
\* when the collection is non-empty and leaves it at 0 when it is empty.
C8_FirstLast ==
    /\ op = "first_page" => current_page = 0
    /\ op = "last_page" =>
          IF len(image_paths) > 0
          THEN current_page = TotalPages - 1
          ELSE current_page = 0

\* C8 witness: last_page jumped from page 0 over a page to the last one.
C8_Witness ==
    /\ op = "last_page"
    /\ pre.current_page = 0
    /\ current_page >= 2
    /\ current_page = TotalPages - 1

\* C9: next is enabled iff current_page < totalPages - 1, prev iff
\* current_page > 0, and both are disabled when the collection is empty.
C9_CanGo ==
    /\ btn_next = (current_page < TotalPages - 1)
    /\ btn_prev = (current_page > 0)
    /\ len(image_paths) = 0 => (~btn_next /\ ~btn_prev)

\* C9 witness: on a middle page both are enabled.
C9_Witness ==
    /\ btn_next
    /\ btn_prev
    /\ current_page >= 1
    /\ current_page < TotalPages - 1

\* C11: with the 3x3 grid and 20 items totalPages is 3; page 2 shows items[18]
\* and items[19] in cells 0 and 1 and nothing in cells 2..8, with next
\* disabled and prev enabled; next_page leads from page 0 to 1 and from 1 to
\* 2, and last_page from page 0 to 2.
C11_TwentyItems ==
    (images_per_page = ViewerImagesPerPage /\ len(image_paths) = 20) =>
        /\ TotalPages = 3
        /\ current_page = 2 =>
              /\ image_labels[0] = Pixmap(image_paths[18])
              /\ image_labels[1] = Pixmap(image_paths[19])
              /\ \A i \in 2 .. 8 : IsEmptyCell(i)
              /\ ~btn_next
              /\ btn_prev
        /\ (op = "next_page" /\ pre.current_page \in {0, 1}) =>
              current_page = pre.current_page + 1
        /\ (op = "last_page" /\ pre.current_page = 0) => current_page = 2

\* C11 witness: the second next_page has reached page 2 of the 20 items.
C11_Witness ==
    /\ images_per_page = ViewerImagesPerPage
    /\ len(image_paths) = 20
    /\ op = "next_page"
    /\ pre.current_page = 1
    /\ current_page = 2
    /\ image_labels[1] = Pixmap(image_paths[19])
    /\ IsEmptyCell(2)

\* C12: no handler raises, in any reachable state, and display_page reads the
\* collection only at positions 0 .. len - 1.
C12_Total ==
    /\ ~raised
    /\ \A i \in 0 .. images_per_page - 1 :
          LET image_index == current_page * images_per_page + i
          IN  image_index < len(image_paths) => image_index >= 0

\* C12 witness: last_page has run on the empty grid and returned.
C12_Witness ==
    /\ op = "last_page"
    /\ len(pre.image_paths) = 0
    /\ len(image_paths) = 0
    /\ current_page = 0
    /\ ~raised

\* C13: the collection changes only in open_images, which replaces it by the
\* selection; current_page changes only in a navigation handler or in
\* open_images.
C13_Frame ==
    /\ image_paths # pre.image_paths =>
          (op = "open_images" /\ image_paths = arg)
    /\ current_page # pre.current_page =>
          op \in {"open_images", "next_page", "prev_page", "first_page",
                  "last_page"}

\* C13 witness: first_page has moved back from a later page and the
\* collection is as it was.
C13_Witness ==
    /\ op = "first_page"
    /\ pre.current_page >= 1
    /\ current_page = 0
    /\ len(image_paths) > images_per_page
    /\ image_paths = pre.image_paths

\* C14: resizeEvent (display_page and update_button_states run again) changes
\* neither current_page nor the collection, and yields the cells and the
\* button states that were already there.
C14_QueriesPure ==
    [][op' = "resizeEvent" =>
          UNCHANGED <<image_paths, current_page, image_labels,
                      btn_home, btn_prev, btn_next, btn_end>>]_vars

\* C14 witness: resizeEvent has run on a later page that shows images.
C14_Witness ==
    /\ op = "resizeEvent"
    /\ current_page >= 1
    /\ btn_prev
    /\ ~IsEmptyCell(0)
    /\ IsEmptyCell(images_per_page - 1)

\* C15: Next and End are enabled iff current_page < totalPages - 1, Home and
\* Prev iff current_page > 0 in a non-empty collection, after every handler.
C15_ButtonsInSync ==
    /\ btn_next = (current_page < TotalPages - 1)
    /\ btn_end = (current_page < TotalPages - 1)
    /\ btn_home = (len(image_paths) > 0 /\ current_page > 0)
    /\ btn_prev = (len(image_paths) > 0 /\ current_page > 0)

\* C15 witness: open_images over a later page has left Home disabled and End
\* enabled.
C15_Witness ==
    /\ op = "open_images"
    /\ pre.current_page >= 1
    /\ len(arg) > images_per_page
    /\ ~btn_home
    /\ btn_end

\* C16: after construction current_page is 0, the collection is empty,
\* totalPages is 0, every cell is empty and the four buttons are disabled.
C16_Constructed ==
    op = "__init__" =>
        /\ current_page = 0
        /\ len(image_paths) = 0
        /\ TotalPages = 0
        /\ \A i \in 0 .. images_per_page - 1 : IsEmptyCell(i)
        /\ ~btn_home /\ ~btn_prev /\ ~btn_next /\ ~btn_end

\* C16 witness: the freshly constructed grid.
C16_Witness ==
    /\ op = "__init__"
    /\ image_paths = EmptyList
    /\ ~btn_next
    /\ IsEmptyCell(0)

\* The grid's dimensions: 3 rows of 3 in the window, 3 rows of 4 in the widget.
GridRows ==
    IF images_per_page = ViewerImagesPerPage THEN ViewerGridRows
    ELSE images_per_col

GridCols ==
    IF images_per_page = ViewerImagesPerPage THEN ViewerImagesPerRow
    ELSE images_per_row

\* C17: pageCapacity is rows * cols, and cell i lies at (i div cols, i mod
\* cols): a bijection onto [0, rows) x [0, cols) with inverse row * cols + col.
C17_GridBijection ==
    /\ images_per_page = GridRows * GridCols
    /\ \A i \in 0 .. images_per_page - 1 :
          /\ grid_layout[i] = <<i \div GridCols, i % GridCols>>
          /\ grid_layout[i][1] \in 0 .. GridRows - 1
          /\ grid_layout[i][2] \in 0 .. GridCols - 1
          /\ grid_layout[i][1] * GridCols + grid_layout[i][2] = i
    /\ \A r \in 0 .. GridRows - 1 : \A c \in 0 .. GridCols - 1 :
          /\ \E i \in 0 .. images_per_page - 1 : grid_layout[i] = <<r, c>>
          /\ grid_layout[r * GridCols + c] = <<r, c>>
    /\ \A i, j \in 0 .. images_per_page - 1 :
          grid_layout[i] = grid_layout[j] => i = j

\* C17 witness: the widget's last label lies in row 2, column 3, and the
\* first label of its second row in row 1, column 0.
C17_Witness ==
    /\ images_per_page = WidgetImagesPerPage
    /\ grid_layout[images_per_page - 1] = <<2, 3>>
    /\ grid_layout[4] = <<1, 0>>

\* ---------------------------------------------------- MediaViewer claims
\* Each letter paired with itself in the other case.
CasePairs ==
    {<<UpperCase[u], LowerCase[u]>> : u \in 1 .. Len(UpperCase)}

\* Two characters that are the same letter in either case.
SameLetter(a, b) ==
    a = b \/ <<a, b>> \in CasePairs \/ <<b, a>> \in CasePairs

\* path ends with ext, whatever the case of its letters.
EndsWithIgnoringCase(path, ext) ==
    /\ Len(path) >= Len(ext)
    /\ \A k \in 1 .. Len(ext) :
          SameLetter(path[Len(path) - Len(ext) + k], ext[k])

HasImageExtension(path) ==
    \E k \in 1 .. Len(IMAGE_EXTENSIONS) :
        EndsWithIgnoringCase(path, IMAGE_EXTENSIONS[k])

HasVideoExtension(path) ==
    \E k \in 1 .. Len(VIDEO_EXTENSIONS) :
        EndsWithIgnoringCase(path, VIDEO_EXTENSIONS[k])

\* More names to classify: an image name ending in a video extension, an
\* extension without its dot, a bare upper-case extension, an extension
\* followed by a letter, an upper-case video.
ProbeNames ==
    FileNames \cup
    {<<"g", ".", "j", "p", "g", ".", "a", "v", "i">>,
     <<"m", "k", "v">>,
     <<".", "J", "P", "E", "G">>,
     <<"h", ".", "j", "p", "e", "g", "x">>,
     <<"i", ".", "M", "O", "V">>}

\* The classification with the video test made before the image test.
VideoTestedFirst(filepath) ==
    IF endswith(lower(filepath), VIDEO_EXTENSIONS) THEN "Video"
    ELSE IF endswith(lower(filepath), IMAGE_EXTENSIONS) THEN "Image"
    ELSE "Unsupported"

\* The viewer is constructed and running.
ViewerRunning == op # "start" /\ viewer_error = "none"

\* Every probe name falls in exactly one class, found by its suffix in any
\* case, and the order of the two tests does not matter.
ClassifiedBySuffix ==
    /\ \A p \in ProbeNames :
          /\ (media_kind(p) = "Image") = HasImageExtension(p)
          /\ (media_kind(p) = "Video") = HasVideoExtension(p)
          /\ (media_kind(p) = "Unsupported") =
                (~HasImageExtension(p) /\ ~HasVideoExtension(p))
          /\ ~(HasImageExtension(p) /\ HasVideoExtension(p))
          /\ media_kind(p) = VideoTestedFirst(p)
    /\ \A i \in 1 .. Len(IMAGE_EXTENSIONS) : \A v \in 1 .. Len(VIDEO_EXTENSIONS) :
          /\ ~EndsWithIgnoringCase(IMAGE_EXTENSIONS[i], VIDEO_EXTENSIONS[v])
          /\ ~EndsWithIgnoringCase(VIDEO_EXTENSIONS[v], IMAGE_EXTENSIONS[i])

\* C18: a path is an image iff it ends, in any case, with an image extension,
\* a video iff it ends with a video extension, and unsupported otherwise; no
\* extension of one set is one of, or the end of one of, the other set, so no
\* path is both and testing for video first classifies alike; the item shown
\* is titled by that classification.
C18_Classification ==
    /\ ClassifiedBySuffix
    /\ ViewerRunning =>
          LET filepath == media_files[current_index]
          IN  window_title.kind =
                  IF HasImageExtension(filepath) THEN "Image"
                  ELSE IF HasVideoExtension(filepath) THEN "Video"
                  ELSE "Unsupported"

\* C18 witness: navigation has loaded the upper-case image, titled an image.
C18_Witness ==
    /\ ViewerRunning
    /\ current_index >= 1
    /\ media_files[current_index] = <<"B", ".", "P", "N", "G">>
    /\ window_title.kind = "Image"
    /\ op \in {"go_to_next", "go_to_last"}

\* C19: MediaViewer([]) raises ValueError and leaves no attribute, title or
\* pixmap behind; MediaViewer of a non-empty list holds the list, is at index
\* 0 and has loaded the first item.
C19_Construction ==
    /\ viewer_error = "ValueError" => (op = "__init__" /\ len(arg) = 0)
    /\ op = "__init__" =>
          IF len(arg) = 0
          THEN /\ viewer_error = "ValueError"
               /\ viewer_attrs = {}
               /\ len(media_files) = 0
               /\ window_title = NoTitle
               /\ original_pixmap = NullPixmap
               /\ media_label = NullPixmap
               /\ player_windows = <<>>
          ELSE /\ viewer_error = "none"
               /\ viewer_attrs = ViewerAttrs
               /\ media_files = arg
               /\ current_index = 0
               /\ window_title.filename = basename(arg[0])
               /\ window_title.kind # "Media Viewer"
               /\ is_current_media_video = HasVideoExtension(arg[0])
               /\ original_pixmap.null \/ original_pixmap.of = arg[0]
               /\ media_label = original_pixmap

\* C19 witness: the constructor has raised ValueError on the empty list.
C19_Witness ==
    /\ op = "__init__"
    /\ len(arg) = 0
    /\ viewer_error = "ValueError"
    /\ viewer_attrs = {}

\* C20: is_current_media_video holds iff media_files[current_index] has a
\* video extension; handle_double_click opens one window, for that path, when
\* it holds and none otherwise.
C20_VideoFlag ==
    ViewerRunning =>
        LET filepath == media_files[current_index]
        IN  /\ is_current_media_video = HasVideoExtension(filepath)
            /\ op = "handle_double_click" =>
                  IF HasVideoExtension(filepath)
                  THEN /\ Len(player_windows) = pre.windows + 1
                       /\ player_windows[Len(player_windows)] = filepath
                  ELSE Len(player_windows) = pre.windows
            /\ op # "handle_double_click" =>
                  Len(player_windows) = pre.windows
            /\ \A w \in 1 .. Len(player_windows) :
                  HasVideoExtension(player_windows[w])

\* C20 witness: a double click on a video reached by navigation has opened
\* its window.
C20_Witness ==
    /\ ViewerRunning
    /\ op = "handle_double_click"
    /\ current_index >= 1
    /\ is_current_media_video
    /\ Len(player_windows) = pre.windows + 1
    /\ player_windows[Len(player_windows)] = media_files[current_index]

\* The attributes load_current_media assigns.
LoadedAttrs ==
    <<is_current_media_video, original_pixmap, window_title, media_label>>

\* C25: while the viewer runs current_index is an index of media_files;
\* go_to_next at the last item and go_to_previous at the first leave it as it
\* is; go_to_first and go_to_last at their target load nothing.
C25_IndexInRange ==
    /\ [](ViewerRunning =>
            (current_index >= 0 /\ current_index <= len(media_files) - 1))
    /\ [][ViewerRunning =>
            /\ (op' = "go_to_next" /\ current_index = len(media_files) - 1) =>
                  UNCHANGED <<current_index, LoadedAttrs>>
            /\ (op' = "go_to_previous" /\ current_index = 0) =>
                  UNCHANGED <<current_index, LoadedAttrs>>
            /\ (op' = "go_to_first" /\ current_index = 0) =>
                  UNCHANGED <<current_index, LoadedAttrs>>
            /\ (op' = "go_to_last" /\ current_index = len(media_files) - 1) =>
                  UNCHANGED <<current_index, LoadedAttrs>>
            /\ op' = "go_to_next" => current_index' <= current_index + 1
            /\ op' = "go_to_previous" => current_index' >= current_index - 1]_vars

\* C25 witness: go_to_previous has been invoked at the first of several items
\* and the viewer is still there.
C25_Witness ==
    /\ ViewerRunning
    /\ op = "go_to_previous"
    /\ pre.current_index = 0
    /\ current_index = 0
    /\ len(media_files) >= 2

\* What the user sees of the grid.
GridShown ==
    <<image_paths, current_page, image_labels,
      btn_home, btn_prev, btn_next, btn_end>>

\* C26: a handler invoked while its button is disabled leaves the grid as it
\* is, and a handler invoked while its button is enabled changes
\* current_page.
C26_DisabledIsNoOp ==
    [][/\ op' = "first_page" =>
            IF btn_home THEN current_page' # current_page
            ELSE UNCHANGED GridShown
       /\ op' = "prev_page" =>
            IF btn_prev THEN current_page' # current_page
            ELSE UNCHANGED GridShown
       /\ op' = "next_page" =>
            IF btn_next THEN current_page' # current_page
            ELSE UNCHANGED GridShown
       /\ op' = "last_page" =>
            IF btn_end THEN current_page' # current_page
            ELSE UNCHANGED GridShown]_vars

\* C26 witness: last_page has been invoked on the last of several pages,
\* where End is disabled, and the page is the same.
C26_Witness ==
    /\ op = "last_page"
    /\ ~raised
    /\ ~btn_end
    /\ ~btn_next
    /\ btn_home
    /\ pre.image_paths = image_paths
    /\ pre.current_page = current_page
    /\ current_page >= 1

\* The cells of the page that show an item.
OccupiedCells == {i \in 0 .. images_per_page - 1 : ~IsEmptyCell(i)}

\* C27: with a non-empty collection the page shown is never blank: cell 0 is
\* occupied, the occupied cells are 0 .. k-1 with 1 <= k <= pageCapacity, and
\* k < pageCapacity only on the last page.
C27_NoBlankPage ==
    len(image_paths) > 0 =>
        LET k == Cardinality(OccupiedCells)
        IN  /\ 0 \in OccupiedCells
            /\ OccupiedCells = 0 .. k - 1
            /\ k >= 1
            /\ k <= images_per_page
            /\ k < images_per_page => current_page = TotalPages - 1
            /\ \A i \in OccupiedCells :
                  current_page * images_per_page + i < len(image_paths)

\* C27 witness: last_page has brought up a last page that is partly filled,
\* behind two full ones.
C27_Witness ==
    /\ op = "last_page"
    /\ pre.current_page = 0
    /\ current_page = 2
    /\ OccupiedCells # {}
    /\ Cardinality(OccupiedCells) < images_per_page
    /\ IsEmptyCell(images_per_page - 1)

\* ---------------------------------------------------- VideoPlayer claims
\* What rewind_video and fast_forward_video request, whatever the duration:
\* rewind asks for max(0, position - 5000); fast-forward asks for
\* position + 5000 when that is below the duration and for nothing, leaving
\* the position, otherwise; the position stays in [0, duration].
SeekRequests ==
    /\ position >= 0
    /\ position <= duration
    /\ op = "rewind_video" =>
          /\ requested =
                {IF pre.position >= 5000 THEN pre.position - 5000 ELSE 0}
          /\ \A p \in requested : p >= 0 /\ p <= pre.position
    /\ op = "fast_forward_video" =>
          IF pre.position + 5000 < duration
          THEN requested = {pre.position + 5000} /\ position = pre.position + 5000
          ELSE requested = {} /\ position = pre.position

\* C21 (as stated): every position rewind_video or fast_forward_video
\* requests is in [0, duration).
C21_RequestedBelowDuration ==
    /\ SeekRequests
    /\ op \in {"rewind_video", "fast_forward_video"} =>
          \A p \in requested : p >= 0 /\ p < duration

\* C21 (amended): every position rewind_video or fast_forward_video requests
\* is in [0, duration) once the duration is positive; while the duration is 0
\* (a source is set and not yet loaded) rewind_video requests position 0.
C21_RequestedBelowKnownDuration ==
    /\ SeekRequests
    /\ op \in {"rewind_video", "fast_forward_video"} =>
          \A p \in requested :
              IF duration > 0 THEN p >= 0 /\ p < duration ELSE p = 0

\* C21 witness: a rewind from less than 5 s into a loaded medium has asked
\* for position 0.
C21_Witness ==
    /\ op = "rewind_video"
    /\ pre.position > 0
    /\ pre.position < 5000
    /\ duration > 5000
    /\ requested = {0}
    /\ position = 0

\* Every playback control is disabled / is enabled.
PlaybackDisabled == \A c \in PlaybackControls : ~enabled[c]
PlaybackEnabled == \A c \in PlaybackControls : enabled[c]

\* C22: the playback controls are disabled after construction and after every
\* handle_error, only an open_file that got a valid URL enables them and it
\* always does, nothing but handle_error disables them; the mute button and
\* the volume slider are enabled in every state of the constructed player.
C22_ControlsGate ==
    /\ [](op # "start" => (enabled.mute_button /\ enabled.volume_slider))
    /\ [](op # "start" => (PlaybackDisabled \/ PlaybackEnabled))
    /\ [](op \in {"__init__", "handle_error"} => PlaybackDisabled)
    /\ []((op = "open_file" /\ arg.valid) => PlaybackEnabled)
    /\ [][(\E c \in PlaybackControls : enabled'[c] /\ ~enabled[c]) =>
              (op' = "open_file" /\ arg'.valid)]_vars
    /\ [][(\E c \in PlaybackControls : ~enabled'[c] /\ enabled[c]) =>
              op' = "handle_error"]_vars

\* C22 witness: after an error another handler has run and the playback
\* controls are still disabled, the sound controls enabled.
C22_Witness ==
    /\ op = "toggle_mute"
    /\ source.valid
    /\ time_label = ErrorLabel
    /\ PlaybackDisabled
    /\ enabled.mute_button
    /\ enabled.volume_slider

\* C23: set_volume(v) with v > 0 on a muted output unmutes it and leaves an
\* unmuted one unmuted, set_volume(0) leaves the muted flag as it is,
\* toggle_mute flips the flag and two toggle_mute in a row restore it, and
\* after either handler the mute button's tooltip is "Unmute" iff the output
\* is muted.
C23_MuteAndVolume ==
    /\ []((op = "set_volume" /\ arg > 0) => ~muted)
    /\ []((op = "set_volume" /\ arg = 0) => muted = pre.muted)
    /\ [](op = "toggle_mute" => muted = ~pre.muted)
    /\ [][(op = "toggle_mute" /\ op' = "toggle_mute") =>
              muted' = pre.muted]_vars
    /\ [](op \in {"toggle_mute", "set_volume"} =>
            ((tooltips.mute_button = "Unmute") = muted))
    /\ []((op = "set_volume") =>
            (volume_slider = arg /\ audio_volume = arg))

\* C23 witness: the slider has been moved above 0 while the output was muted,
\* and the output is unmuted with tooltip "Mute".
C23_Witness ==
    /\ op = "set_volume"
    /\ arg > 0
    /\ pre.muted
    /\ ~muted
    /\ tooltips.mute_button = "Mute"

\* ------------------------------------------------ MediaScannerApp claims
\* name has one of the scanner's media extensions, in any case.
HasMediaExtension(name) ==
    \E k \in 1 .. Len(MEDIA_EXTENSIONS) :
        EndsWithIgnoringCase(name, MEDIA_EXTENSIONS[k])

\* Directory d is top or lies below it, at any depth.
Under(d, top) ==
    \/ d = top
    \/ /\ Len(d) > Len(top) + 1
       /\ SubSeq(d, 1, Len(top) + 1) = top \o <<"/">>

\* The path the tree gives item i: the scanned folder for a top-level item,
\* and the parent's path, a slash and the item's name below it.
RECURSIVE ItemPath(_)
ItemPath(i) ==
    IF model_rows[i].parent = 0 THEN arg
    ELSE ItemPath(model_rows[i].parent) \o <<"/">> \o model_rows[i].name

FolderItems == {i \in 1 .. Len(model_rows) : model_rows[i].icon = "folder"}
FileItems == {i \in 1 .. Len(model_rows) : model_rows[i].icon = "file"}

\* The sub-directories of the scanned folder, and its files with a media
\* extension whose size can be read, at any depth.
ScannedSubDirs == {d \in fs.dirs : Under(d, arg) /\ d # arg}
ScannedMedia ==
    {f \in fs.files : /\ Under(f.dir, arg)
                      /\ HasMediaExtension(f.name)
                      /\ f \notin fs.unreadable}

\* Directory d can be reached from the scanned folder: every directory from
\* the scanned folder down to the one d is in can be listed.
Reached(d) ==
    \A a \in fs.dirs :
        (Under(a, arg) /\ Under(d, a) /\ a # d) => a \notin fs.unlisted

\* The sub-directories that can be reached, and the readable media files of
\* the directories that can be reached and listed.
ListedSubDirs == {d \in ScannedSubDirs : Reached(d)}
ListedMedia ==
    {f \in ScannedMedia : Reached(f.dir) /\ f.dir \notin fs.unlisted}

\* The model has one top-level item, the scanned folder; each directory of
\* SubDirs is one folder item below the item of the directory it is in; each
\* file of Media is one file item below the item of its directory; there is
\* no other item.
TreeMirrors(SubDirs, Media) ==
    /\ Cardinality({i \in 1 .. Len(model_rows) :
                        model_rows[i].parent = 0}) = 1
    /\ model_rows[1].parent = 0
    /\ model_rows[1].icon = "folder"
    /\ SubSeq(arg, Len(arg) - Len(model_rows[1].name), Len(arg)) =
          <<"/">> \o model_rows[1].name
    /\ \A i \in 2 .. Len(model_rows) : model_rows[i].parent \in FolderItems
    /\ \A d \in SubDirs :
          Cardinality({i \in FolderItems : ItemPath(i) = d}) = 1
    /\ \A i \in FolderItems : ItemPath(i) \in SubDirs \cup {arg}
    /\ \A f \in Media :
          Cardinality({i \in FileItems :
                          /\ ItemPath(i) = f.dir \o <<"/">> \o f.name
                          /\ model_rows[i].data = ItemPath(i)}) = 1
    /\ \A i \in FileItems :
          /\ model_rows[i].data = ItemPath(i)
          /\ \E f \in Media : ItemPath(i) = f.dir \o <<"/">> \o f.name

\* A scan has just been made.
Scanned == op = "open_folder_dialog" /\ arg # <<>>

\* C24 (as stated): after a scan the tree mirrors the folder: one top-level
\* item, every sub-directory at any depth once below its parent's item,
\* every readable media file once below its directory's item, nothing else;
\* and no directory is visited without an item for it.
C24_TreeMirrorsFolder ==
    /\ ~parent_missing
    /\ Scanned => TreeMirrors(ScannedSubDirs, ScannedMedia)

\* C24 (amended): the same for the sub-directories os.walk reaches and the
\* files of the directories it lists: what lies in or below a directory that
\* cannot be listed is not shown, the directory itself is.
C24_TreeMirrorsListedFolders ==
    /\ ~parent_missing
    /\ Scanned => TreeMirrors(ListedSubDirs, ListedMedia)

\* C24 witness: a second scan, of the top folder, has found a media file two
\* levels down, on a disk that also holds a file that is not shown.
C24_Witness ==
    /\ Scanned
    /\ arg = TopFolder
    /\ pre.scanned
    /\ ~parent_missing
    /\ \E i \in FileItems :
          /\ model_rows[i].parent # 0
          /\ model_rows[model_rows[i].parent].parent # 0
          /\ model_rows[model_rows[model_rows[i].parent].parent].parent # 0
    /\ Cardinality(fs.files) > Cardinality(FileItems)

====
